---------------------------- MODULE Spec2Model ----------------------------
(***************************************************************************)
(* KontactShare API server (src/src/index.ts): the Express request         *)
(* handlers over the Supabase tables `admins` and `profiles`, the          *)
(* requireAdmin guard and the jsonwebtoken session tokens.                 *)
(*                                                                         *)
(* One step of the model is one HTTP request handled from its first        *)
(* middleware to its response (or one tick of the clock, or one            *)
(* out-of-band SQL statement on the admins table).  `last` is the access   *)
(* log entry of the request handled by the step: what was asked, what was  *)
(* answered and which database statements ran for it.                      *)
(***************************************************************************)
EXTENDS Integers, Sequences, FiniteSets, TLC

VARIABLES
    now,        \* the server clock, in hours (Date.now())
    admins,     \* the rows of table admins
    profiles,   \* the rows of table profiles
    nextId,     \* the next value of gen_random_uuid() for profiles.id
    issued,     \* the tokens login has returned, each with its time of issue
    last,       \* the request handled by the last step and its response
    pending,    \* the PIN-change requests between their select and their update
    counting    \* the stats request between its queries: the counts it has, and
                \* the table each of its queries ran on

vars == <<now, admins, profiles, nextId, issued, last, pending, counting>>

(***************************************************************************)
(* Bounds of the model.                                                    *)
(***************************************************************************)
ClockStep == 4         \* hours between two observations of the clock
MaxClock == 12         \* the clock is observed up to this hour
MaxIssued == 1         \* tokens login ever returns
MaxPending == 2         \* PIN-change requests between their select and their update
MaxCreates == 2        \* profile rows ever inserted

(***************************************************************************)
(* JavaScript values.                                                      *)
(***************************************************************************)
Undefined == "undefined"            \* a missing JSON field
UndefinedPin == <<"undefined">>     \* a missing pin field (pins are character sequences)

Truthy(v) == v # Undefined /\ v # ""

TruthyPin(p) == p # UndefinedPin /\ p # <<>>

Digit == {"0", "1", "2", "3", "4", "5", "6", "7", "8", "9"}

\* /^\d{5}$/.test(p) for a string p
IsFiveDigits(p) == Len(p) = 5 /\ \A i \in 1..5 : p[i] \in Digit

(***************************************************************************)
(* Token service: jsonwebtoken's sign and verify with a shared secret.     *)
(* A signature is the key that made it and the claim set it was made       *)
(* over, so a token verifies under a key exactly when that key signed      *)
(* exactly these claims.                                                   *)
(***************************************************************************)
JWT_SECRET == "dev-secret-change-me"

OtherSecret == "not-the-server-secret"

EXPIRES_IN == 8

hmac(claims, key) == [key |-> key, over |-> claims]

\* jwt.sign(payload, secret, { expiresIn: '8h' }) at clock t
jwtSign(payload, secret, t) ==
    LET claims == [sub |-> payload.sub, email |-> payload.email, role |-> payload.role,
                   iat |-> t, exp |-> t + EXPIRES_IN]
    IN  [claims |-> claims, sig |-> hmac(claims, secret)]

(***************************************************************************)
(* An Authorization header is a sequence of atoms: words, single spaces    *)
(* and compact tokens.  The empty sequence is the absent (or empty)        *)
(* header.                                                                 *)
(***************************************************************************)
Word(w) == [a |-> "word", w |-> w]

Sp == [a |-> "sp"]

Jwt(t) == [a |-> "jwt", t |-> t]

\* authHeader.startsWith('Bearer ')
startsWithBearer(h) == Len(h) >= 2 /\ h[1] = Word("Bearer") /\ h[2] = Sp

\* the positions of the spaces of h
spaces(h) == {i \in 1..Len(h) : h[i] = Sp}

minOf(S) == CHOOSE i \in S : \A j \in S : i <= j

\* authHeader.split(' ')[1]: what lies between the first space and the next one
\* (or the end); <<>> when there is no space at all (undefined)
splitField1(h) ==
    IF spaces(h) = {} THEN <<>>
    ELSE LET s1 == minOf(spaces(h))
             rest == {i \in spaces(h) : i > s1}
             e == IF rest = {} THEN Len(h) ELSE minOf(rest) - 1
         IN  SubSeq(h, s1 + 1, e)

\* jwt.verify(token, secret) at clock t: throws (ok = FALSE) unless the string is
\* one compact token, signed by secret over its own claims, with t < exp
jwtVerifyNoExpiry(field, secret, t) ==
    IF Len(field) = 1 /\ field[1].a = "jwt"
       /\ field[1].t.sig = hmac(field[1].t.claims, secret)
    THEN [ok |-> TRUE, decoded |-> field[1].t.claims]
    ELSE [ok |-> FALSE]

jwtVerify(field, secret, t) ==
    IF Len(field) = 1 /\ field[1].a = "jwt"
       /\ field[1].t.sig = hmac(field[1].t.claims, secret)
       /\ t < field[1].t.claims.exp
    THEN [ok |-> TRUE, decoded |-> field[1].t.claims]
    ELSE [ok |-> FALSE]

(***************************************************************************)
(* requireAdmin: next() (pass) with req.admin set, or the 401 response.    *)
(***************************************************************************)
requireAdminAnyScheme(h) ==
    LET v == jwtVerify(splitField1(h), JWT_SECRET, now)
    IN  IF v.ok THEN [pass |-> TRUE, admin |-> v.decoded]
        ELSE [pass |-> FALSE, status |-> 401, body |-> [error |-> "Invalid token"]]

requireAdmin(h) ==
    IF h = <<>> \/ ~startsWithBearer(h)
    THEN [pass |-> FALSE, status |-> 401,
          body |-> [error |-> "Missing or invalid Authorization header"]]
    ELSE LET v == jwtVerify(splitField1(h), JWT_SECRET, now)
         IN  IF v.ok THEN [pass |-> TRUE, admin |-> v.decoded]
             ELSE [pass |-> FALSE, status |-> 401, body |-> [error |-> "Invalid token"]]

(***************************************************************************)
(* What a client can put in the Authorization header: nothing, or a token  *)
(* it holds (or made up) written in one of several ways.                   *)
(***************************************************************************)
CredKinds == {"bearer", "trailing", "basic", "lowercase", "nospace", "doublespace"}

NoCred == [kind |-> "none"]

GarbageCred == [kind |-> "garbage"]

\* the Authorization header a credential is sent as
Header(cred) ==
    CASE cred.kind = "none"        -> <<>>
      [] cred.kind = "garbage"     -> <<Word("Bearer"), Sp, Word("not.a.jwt")>>
      [] cred.kind = "bearer"      -> <<Word("Bearer"), Sp, Jwt(cred.tok)>>
      [] cred.kind = "trailing"    -> <<Word("Bearer"), Sp, Jwt(cred.tok), Sp, Word("x")>>
      [] cred.kind = "basic"       -> <<Word("Basic"), Sp, Jwt(cred.tok)>>
      [] cred.kind = "lowercase"   -> <<Word("bearer"), Sp, Jwt(cred.tok)>>
      [] cred.kind = "nospace"     -> <<Word("Bearer"), Jwt(cred.tok)>>
      [] cred.kind = "doublespace" -> <<Word("Bearer"), Sp, Sp, Jwt(cred.tok)>>

\* a token whose claims were edited after signing (a later expiry, a higher role)
Tampered(t) ==
    [claims |-> [t.claims EXCEPT !.exp = @ + EXPIRES_IN, !.role = "superadmin"],
     sig |-> t.sig]

\* the same claims signed with a key that is not the server's
Forged(t) == [claims |-> t.claims, sig |-> hmac(t.claims, OtherSecret)]

\* a token made without any login
SelfMade ==
    jwtSign([sub |-> "admin-1", email |-> "admin@kontactshare.com", role |-> "admin"],
            OtherSecret, 0)

IssuedTokens == {i.token : i \in issued}

\* every credential a client can present in the current state
AllCreds ==
    {NoCred, GarbageCred, [kind |-> "bearer", tok |-> SelfMade]}
    \cup {[kind |-> k, tok |-> t] : k \in CredKinds, t \in IssuedTokens}
    \cup {[kind |-> "bearer", tok |-> Tampered(t)] : t \in IssuedTokens}
    \cup {[kind |-> "bearer", tok |-> Forged(t)] : t \in IssuedTokens}

\* the credentials of a well-behaved admin client: none, or a token from login
PlainCreds == {NoCred} \cup {[kind |-> "bearer", tok |-> t] : t \in IssuedTokens}

(***************************************************************************)
(* Table admins (src/unnamed/part_002) and the password verifier.          *)
(***************************************************************************)
Null == "null"

bcryptHash(password) == <<"bcrypt", password>>

\* bcrypt.compare(password, hash)
bcryptCompare(password, hash) == hash = bcryptHash(password)

SeedAdmin ==
    [id |-> "admin-1", email |-> "admin@kontactshare.com",
     password_hash |-> bcryptHash("Admin@123"), role |-> "admin"]

OtherAdmin ==
    [id |-> "admin-2", email |-> "ops@kontactshare.com",
     password_hash |-> bcryptHash("Ops@456"), role |-> "viewer"]

Emails == {Undefined, "", "admin@kontactshare.com", "ops@kontactshare.com", "nobody@example.com"}

Passwords == {Undefined, "Admin@123", "Ops@456"}

\* .single(): the one row, or an error when there is none or several
single(rows) ==
    IF Cardinality(rows) = 1
    THEN [error |-> FALSE, data |-> CHOOSE r \in rows : TRUE]
    ELSE [error |-> TRUE, message |-> "JSON object requested, multiple (or no) rows returned"]

(***************************************************************************)
(* POST /api/admin/login.  The result of the handler: the response, the    *)
(* database statements it ran.                                             *)
(***************************************************************************)
\* the payload login signs for an account: role falls back to 'admin'
sessionClaimsFixedRole(admin) ==
    [sub |-> admin.id, email |-> admin.email, role |-> "admin"]

sessionClaims(admin) ==
    [sub |-> admin.id, email |-> admin.email,
     role |-> IF admin.role = Null THEN "admin" ELSE admin.role]

loginEnumerating(email, password) ==
    IF ~Truthy(email) \/ ~Truthy(password)
    THEN [status |-> 400, body |-> [error |-> "Email and password are required"], db |-> <<>>]
    ELSE LET q == single({a \in admins : a.email = email})
         IN  IF q.error
             THEN [status |-> 404, body |-> [error |-> "Admin not found"],
                   db |-> <<"select admins">>]
             ELSE IF ~bcryptCompare(password, q.data.password_hash)
             THEN [status |-> 401, body |-> [error |-> "Invalid credentials"],
                   db |-> <<"select admins">>]
             ELSE [status |-> 200,
                   body |-> [token |-> jwtSign(sessionClaims(q.data), JWT_SECRET, now)],
                   db |-> <<"select admins">>]

loginLookupFirst(email, password) ==
    LET q == single({a \in admins : a.email = email})
    IN  IF q.error
        THEN [status |-> 401, body |-> [error |-> "Invalid credentials"],
              db |-> <<"select admins">>]
        ELSE IF ~Truthy(email) \/ ~Truthy(password)
        THEN [status |-> 400, body |-> [error |-> "Email and password are required"],
              db |-> <<"select admins">>]
        ELSE IF ~bcryptCompare(password, q.data.password_hash)
        THEN [status |-> 401, body |-> [error |-> "Invalid credentials"],
              db |-> <<"select admins">>]
        ELSE [status |-> 200,
              body |-> [token |-> jwtSign(sessionClaims(q.data), JWT_SECRET, now)],
              db |-> <<"select admins">>]

login(email, password) ==
    IF ~Truthy(email) \/ ~Truthy(password)
    THEN [status |-> 400, body |-> [error |-> "Email and password are required"], db |-> <<>>]
    ELSE LET q == single({a \in admins : a.email = email})
         IN  IF q.error
             THEN [status |-> 401, body |-> [error |-> "Invalid credentials"],
                   db |-> <<"select admins">>]
             ELSE IF ~bcryptCompare(password, q.data.password_hash)
             THEN [status |-> 401, body |-> [error |-> "Invalid credentials"],
                   db |-> <<"select admins">>]
             ELSE [status |-> 200,
                   body |-> [token |-> jwtSign(sessionClaims(q.data), JWT_SECRET, now)],
                   db |-> <<"select admins">>]

(***************************************************************************)
(* Table profiles (src/README.md, "my copy.sql"): admin_id and unique_code *)
(* are UNIQUE, status defaults to 'active', created_at and updated_at to   *)
(* now().  One contact column (full_name) stands for the eleven contact    *)
(* columns, which every handler treats alike.                              *)
(***************************************************************************)
DefaultPhoto == "/uploads/kontacksharelogo.png"

UploadedPhoto == "/uploads/photo-1.png"

\* the row -> JSON mapping every profile response uses
toProfile(data) ==
    [id |-> data.admin_id, pin |-> data.pin, uniqueCode |-> data.unique_code,
     profilePhoto |-> data.profile_photo_url, fullName |-> data.full_name,
     status |-> data.status, createdAt |-> data.created_at, updatedAt |-> data.updated_at]

\* what a handler hands back: the response, the statements it ran, the table after it
result(status, body, db, rows, id) ==
    [status |-> status, body |-> body, db |-> db, profiles |-> rows, nextId |-> id]

(***************************************************************************)
(* POST /api/profiles (behind requireAdmin).  gen holds the values the     *)
(* three generators draw for this request.                                 *)
(***************************************************************************)
createProfileNoConstraint(profileData, gen) ==
    LET uniqueCode == IF Truthy(profileData.uniqueCode) THEN profileData.uniqueCode
                      ELSE gen.uniqueCode
        idCard == IF Truthy(profileData.id) THEN profileData.id ELSE gen.idCard
        pin == IF TruthyPin(profileData.pin) THEN profileData.pin ELSE gen.pin
        row == [id |-> nextId, admin_id |-> idCard, pin |-> pin, unique_code |-> uniqueCode,
                profile_photo_url |-> IF Truthy(profileData.profilePhoto)
                                      THEN profileData.profilePhoto ELSE DefaultPhoto,
                full_name |-> IF Truthy(profileData.fullName) THEN profileData.fullName
                              ELSE "Default Name",
                status |-> "active", created_at |-> now, updated_at |-> now]
    IN  result(201, [profile |-> toProfile(row), profileLink |-> uniqueCode],
               <<"insert profiles">>, profiles \cup {row}, nextId + 1)

createProfile(profileData, gen) ==
    LET uniqueCode == IF Truthy(profileData.uniqueCode) THEN profileData.uniqueCode
                      ELSE gen.uniqueCode
        idCard == IF Truthy(profileData.id) THEN profileData.id ELSE gen.idCard
        pin == IF TruthyPin(profileData.pin) THEN profileData.pin ELSE gen.pin
        row == [id |-> nextId, admin_id |-> idCard, pin |-> pin, unique_code |-> uniqueCode,
                profile_photo_url |-> IF Truthy(profileData.profilePhoto)
                                      THEN profileData.profilePhoto ELSE DefaultPhoto,
                full_name |-> IF Truthy(profileData.fullName) THEN profileData.fullName
                              ELSE "Default Name",
                status |-> "active", created_at |-> now, updated_at |-> now]
    IN  IF \E r \in profiles : r.admin_id = idCard \/ r.unique_code = uniqueCode
        THEN result(400, [error |-> "duplicate key value violates unique constraint"],
                    <<"insert profiles">>, profiles, nextId)
        ELSE result(201, [profile |-> toProfile(row), profileLink |-> uniqueCode],
                    <<"insert profiles">>, profiles \cup {row}, nextId + 1)

(***************************************************************************)
(* PUT /api/profiles/:uniqueCode.  JSON.stringify drops the undefined      *)
(* fields of dbUpdateData, so only the fields the body carries are set.    *)
(***************************************************************************)
setField(old, new) == IF new = Undefined THEN old ELSE new

updateProfileUnscoped(uniqueCode, updateData) ==
    LET applied(r) == [r EXCEPT !.profile_photo_url = setField(@, updateData.profilePhoto),
                                !.full_name = setField(@, updateData.fullName),
                                !.status = setField(@, updateData.status),
                                !.updated_at = now]
    IN  result(200, [success |-> TRUE], <<"update profiles">>,
               {applied(r) : r \in profiles}, nextId)

updateProfile(uniqueCode, updateData) ==
    LET newPin == IF updateData.pin # UndefinedPin /\ IsFiveDigits(updateData.pin)
                  THEN updateData.pin ELSE UndefinedPin
        applied(r) == [r EXCEPT !.profile_photo_url = setField(@, updateData.profilePhoto),
                                !.full_name = setField(@, updateData.fullName),
                                !.status = setField(@, updateData.status),
                                !.pin = IF newPin = UndefinedPin THEN @ ELSE newPin,
                                !.updated_at = now]
        target == {r \in profiles : r.unique_code = uniqueCode}
        q == single({applied(r) : r \in target})
    IN  IF q.error
        THEN result(400, [error |-> q.message], <<"update profiles">>, profiles, nextId)
        ELSE result(200, toProfile(q.data), <<"update profiles">>,
                    (profiles \ target) \cup {q.data}, nextId)

(***************************************************************************)
(* POST /api/profiles/:uniqueCode/upload: multer (fileFilter, then the     *)
(* size limit while the file streams in), then the handler; a multer       *)
(* error goes to the error-handling middleware.                            *)
(***************************************************************************)
FILE_SIZE_LIMIT == 5

NoFile == [mimetype |-> Undefined, size |-> 0]

uploadPhotoUnfiltered(uniqueCode, file) ==
    IF file = NoFile
    THEN result(400, [error |-> "No file uploaded"], <<>>, profiles, nextId)
    ELSE LET applied(r) == [r EXCEPT !.profile_photo_url = UploadedPhoto,
                                     !.updated_at = now]
             target == {r \in profiles : r.unique_code = uniqueCode}
             q == single({applied(r) : r \in target})
         IN  IF q.error
             THEN result(400, [error |-> q.message], <<"update profiles">>, profiles, nextId)
             ELSE result(200, toProfile(q.data), <<"update profiles">>,
                         (profiles \ target) \cup {q.data}, nextId)

uploadPhoto(uniqueCode, file) ==
    IF file # NoFile /\ file.mimetype # "image"
    THEN result(500, [error |-> "Internal server error"], <<>>, profiles, nextId)
    ELSE IF file # NoFile /\ file.size > FILE_SIZE_LIMIT
    THEN result(400, [error |-> "File too large. Maximum size is 5MB."], <<>>,
                profiles, nextId)
    ELSE IF file = NoFile
    THEN result(400, [error |-> "No file uploaded"], <<>>, profiles, nextId)
    ELSE LET applied(r) == [r EXCEPT !.profile_photo_url = UploadedPhoto,
                                     !.updated_at = now]
             target == {r \in profiles : r.unique_code = uniqueCode}
             q == single({applied(r) : r \in target})
         IN  IF q.error
             THEN result(400, [error |-> q.message], <<"update profiles">>, profiles, nextId)
             ELSE result(200, toProfile(q.data), <<"update profiles">>,
                         (profiles \ target) \cup {q.data}, nextId)

(***************************************************************************)
(* GET /api/profiles/:uniqueCode (public).                                 *)
(***************************************************************************)
getProfile(uniqueCode) ==
    LET q == single({r \in profiles : r.unique_code = uniqueCode})
    IN  IF q.error
        THEN result(404, [error |-> "Profile not found"], <<"select profiles">>,
                    profiles, nextId)
        ELSE result(200, toProfile(q.data), <<"select profiles">>, profiles, nextId)

(***************************************************************************)
(* POST /api/profiles/:uniqueCode/verify (variant A) and                   *)
(* POST /api/profiles/verify (variant B).                                  *)
(***************************************************************************)
verifyScopedBanAware(uniqueCode, id, pin) ==
    LET q == single({r \in profiles : r.unique_code = uniqueCode /\ r.admin_id = id
                                      /\ r.pin = pin})
    IN  IF q.error
        THEN result(401, [error |-> "Invalid credentials"], <<"select profiles">>,
                    profiles, nextId)
        ELSE IF q.data.status = "banned"
        THEN result(403, [error |-> "Account is banned"], <<"select profiles">>,
                    profiles, nextId)
        ELSE result(200, [success |-> TRUE, message |-> "Credentials verified"],
                    <<"select profiles">>, profiles, nextId)

verifyScoped(uniqueCode, id, pin) ==
    LET q == single({r \in profiles : r.unique_code = uniqueCode /\ r.admin_id = id
                                      /\ r.pin = pin})
    IN  IF q.error
        THEN result(401, [error |-> "Invalid credentials"], <<"select profiles">>,
                    profiles, nextId)
        ELSE result(200, [success |-> TRUE, message |-> "Credentials verified"],
                    <<"select profiles">>, profiles, nextId)

verifyByIdPinFirst(id, pin) ==
    IF ~Truthy(id) \/ ~TruthyPin(pin)
    THEN result(400, [error |-> "id and pin are required"], <<>>, profiles, nextId)
    ELSE LET q == single({r \in profiles : r.admin_id = id})
         IN  IF q.error
             THEN result(404, [error |-> "Profile not found"], <<"select profiles">>,
                         profiles, nextId)
             ELSE IF q.data.pin # pin
             THEN result(401, [error |-> "Invalid credentials"], <<"select profiles">>,
                         profiles, nextId)
             ELSE IF q.data.status = "banned"
             THEN result(403, [error |-> "Account is banned"], <<"select profiles">>,
                         profiles, nextId)
             ELSE result(200, [success |-> TRUE, message |-> "Credentials verified",
                               uniqueCode |-> q.data.unique_code],
                         <<"select profiles">>, profiles, nextId)

verifyById(id, pin) ==
    IF ~Truthy(id) \/ ~TruthyPin(pin)
    THEN result(400, [error |-> "id and pin are required"], <<>>, profiles, nextId)
    ELSE LET q == single({r \in profiles : r.admin_id = id})
         IN  IF q.error
             THEN result(404, [error |-> "Profile not found"], <<"select profiles">>,
                         profiles, nextId)
             ELSE IF q.data.status = "banned"
             THEN result(403, [error |-> "Account is banned"], <<"select profiles">>,
                         profiles, nextId)
             ELSE IF q.data.pin # pin
             THEN result(401, [error |-> "Invalid credentials"], <<"select profiles">>,
                         profiles, nextId)
             ELSE result(200, [success |-> TRUE, message |-> "Credentials verified",
                               uniqueCode |-> q.data.unique_code],
                         <<"select profiles">>, profiles, nextId)

(***************************************************************************)
(* PUT /api/profiles/:uniqueCode/pin, the read and the write taken as one  *)
(* step.  An undefined newPin is dropped from the update.                  *)
(***************************************************************************)
changePinNoCheck(uniqueCode, newPin, currentPin) ==
    LET target == {r \in profiles : r.unique_code = uniqueCode}
        q == single(target)
        applied(r) == [r EXCEPT !.pin = IF newPin = UndefinedPin THEN @ ELSE newPin,
                                !.updated_at = now]
    IN  IF q.error
        THEN result(404, [error |-> "Profile not found"], <<"select profiles">>,
                    profiles, nextId)
        ELSE result(200, [success |-> TRUE, message |-> "PIN updated successfully"],
                    <<"select profiles", "update profiles">>,
                    (profiles \ target) \cup {applied(q.data)}, nextId)

changePin(uniqueCode, newPin, currentPin) ==
    LET target == {r \in profiles : r.unique_code = uniqueCode}
        q == single(target)
        applied(r) == [r EXCEPT !.pin = IF newPin = UndefinedPin THEN @ ELSE newPin,
                                !.updated_at = now]
    IN  IF q.error
        THEN result(404, [error |-> "Profile not found"], <<"select profiles">>,
                    profiles, nextId)
        ELSE IF q.data.pin # currentPin
        THEN result(401, [error |-> "Current PIN is incorrect"], <<"select profiles">>,
                    profiles, nextId)
        ELSE result(200, [success |-> TRUE, message |-> "PIN updated successfully"],
                    <<"select profiles", "update profiles">>,
                    (profiles \ target) \cup {applied(q.data)}, nextId)

(***************************************************************************)
(* The admin routes (each behind requireAdmin).                            *)
(***************************************************************************)
\* DELETE /api/profiles/:uniqueCode
deleteProfileSoft(uniqueCode) ==
    result(200, [success |-> TRUE, message |-> "Profile deleted successfully"],
           <<"update profiles">>,
           {IF r.unique_code = uniqueCode THEN [r EXCEPT !.status = "deleted"] ELSE r :
              r \in profiles},
           nextId)

deleteProfile(uniqueCode) ==
    result(200, [success |-> TRUE, message |-> "Profile deleted successfully"],
           <<"delete profiles">>, {r \in profiles : r.unique_code # uniqueCode}, nextId)

\* POST /api/admin/profiles/:uniqueCode/ban and /unban: status is what the route writes
setStatus(uniqueCode, status) ==
    LET target == {r \in profiles : r.unique_code = uniqueCode}
        applied(r) == [r EXCEPT !.status = status, !.updated_at = now]
        q == single({applied(r) : r \in target})
    IN  IF q.error
        THEN result(400, [error |-> q.message], <<"update profiles">>, profiles, nextId)
        ELSE result(200, [success |-> TRUE, status |-> q.data.status],
                    <<"update profiles">>, (profiles \ target) \cup {q.data}, nextId)

banProfileOnce(uniqueCode) ==
    IF \E r \in profiles : r.unique_code = uniqueCode /\ r.status = "banned"
    THEN result(400, [error |-> "already banned"], <<"update profiles">>, profiles, nextId)
    ELSE setStatus(uniqueCode, "banned")

banProfile(uniqueCode) == setStatus(uniqueCode, "banned")

unbanProfile(uniqueCode) == setStatus(uniqueCode, "active")

\* GET /api/admin/profiles?status=..., the first page
listProfiles(status) ==
    LET rows == {r \in profiles : status = "" \/ r.status = status}
    IN  result(200, [profiles |-> rows, total |-> Cardinality(rows)],
               <<"select profiles">>, profiles, nextId)

\* GET /api/admin/stats, the five counts taken as one step
HoursPerDay == 24

dayStart(t) == (t \div HoursPerDay) * HoursPerDay

stats ==
    result(200,
           [totalProfiles |-> Cardinality(profiles),
            activeProfiles |-> Cardinality({r \in profiles : r.status = "active"}),
            bannedProfiles |-> Cardinality({r \in profiles : r.status = "banned"}),
            todayProfiles |-> Cardinality({r \in profiles : r.created_at >= dayStart(now)}),
            weekProfiles |-> Cardinality({r \in profiles :
                                            r.created_at >= now - 7 * HoursPerDay})],
           <<"select profiles", "select profiles", "select profiles", "select profiles",
             "select profiles">>,
           profiles, nextId)

\* POST /api/admin/profiles/bulk; uniqueCodes is a JSON value, an array or not
Arr(items) == [isArray |-> TRUE, items |-> items]

NotAnArray == [isArray |-> FALSE, items |-> <<>>]

Range(seq) == {seq[i] : i \in DOMAIN seq}

bulkCountAffected(action, uniqueCodes) ==
    LET named == {r \in profiles : r.unique_code \in Range(uniqueCodes.items)}
        n == Cardinality(named)
        write(status) ==
            (profiles \ named)
            \cup {[r EXCEPT !.status = status, !.updated_at = now] : r \in named}
    IN  IF ~Truthy(action) \/ ~uniqueCodes.isArray \/ Len(uniqueCodes.items) = 0
        THEN result(400, [error |-> "Invalid bulk operation parameters"], <<>>,
                    profiles, nextId)
        ELSE CASE action = "ban" ->
                    result(200, [success |-> TRUE,
                                 message |-> <<n, "profiles banned successfully">>,
                                 count |-> n],
                           <<"update profiles">>, write("banned"), nextId)
               [] action = "unban" ->
                    result(200, [success |-> TRUE,
                                 message |-> <<n, "profiles unbanned successfully">>,
                                 count |-> n],
                           <<"update profiles">>, write("active"), nextId)
               [] action = "delete" ->
                    result(200, [success |-> TRUE,
                                 message |-> <<n, "profiles deleted successfully">>,
                                 count |-> n],
                           <<"delete profiles">>, profiles \ named, nextId)
               [] OTHER ->
                    result(400, [error |-> "Invalid action"], <<>>, profiles, nextId)

bulk(action, uniqueCodes) ==
    LET n == Len(uniqueCodes.items)
        named == {r \in profiles : r.unique_code \in Range(uniqueCodes.items)}
        write(status) ==
            (profiles \ named)
            \cup {[r EXCEPT !.status = status, !.updated_at = now] : r \in named}
    IN  IF ~Truthy(action) \/ ~uniqueCodes.isArray \/ n = 0
        THEN result(400, [error |-> "Invalid bulk operation parameters"], <<>>,
                    profiles, nextId)
        ELSE CASE action = "ban" ->
                    result(200, [success |-> TRUE, message |-> <<n, "profiles banned successfully">>, count |-> n],
                           <<"update profiles">>, write("banned"), nextId)
               [] action = "unban" ->
                    result(200, [success |-> TRUE, message |-> <<n, "profiles unbanned successfully">>, count |-> n],
                           <<"update profiles">>, write("active"), nextId)
               [] action = "delete" ->
                    result(200, [success |-> TRUE, message |-> <<n, "profiles deleted successfully">>, count |-> n],
                           <<"delete profiles">>, profiles \ named, nextId)
               [] OTHER ->
                    result(400, [error |-> "Invalid action"], <<>>, profiles, nextId)

(***************************************************************************)
(* The steps.  answer writes the access log entry and the table a handler  *)
(* leaves; guarded runs a handler behind requireAdmin.                     *)
(***************************************************************************)
NoAdmin == [sub |-> Undefined]

answer(route, cred, req, r, admin) ==
    /\ last' = [route |-> route, at |-> now, cred |-> cred, req |-> req,
                status |-> r.status, body |-> r.body, db |-> r.db, admin |-> admin]
    /\ profiles' = r.profiles
    /\ nextId' = r.nextId
    /\ UNCHANGED <<now, admins, issued, pending, counting>>

guarded(route, cred, req, r) ==
    LET g == requireAdmin(Header(cred))
    IN  IF g.pass
        THEN answer(route, cred, req, r, g.admin)
        ELSE answer(route, cred, req, result(g.status, g.body, <<>>, profiles, nextId),
                    NoAdmin)

AdminLogin(email, password) ==
    LET r == login(email, password)
    IN  /\ r.status = 200 => Cardinality(issued) < MaxIssued
        /\ last' = [route |-> "POST /api/admin/login", at |-> now, cred |-> NoCred,
                    req |-> [email |-> email, password |-> password],
                    status |-> r.status, body |-> r.body, db |-> r.db, admin |-> NoAdmin]
        /\ issued' = IF r.status = 200
                     THEN issued \cup {[token |-> r.body.token, at |-> now]}
                     ELSE issued
        /\ UNCHANGED <<now, admins, profiles, nextId, pending, counting>>

Tick(max) ==
    /\ now + ClockStep <= max
    /\ now' = now + ClockStep
    /\ UNCHANGED <<admins, profiles, nextId, issued, last, pending, counting>>

\* SQL run on table admins outside the server: a row inserted, deleted or updated
AdminTables ==
    {{}, {SeedAdmin}, {SeedAdmin, OtherAdmin},
     {[SeedAdmin EXCEPT !.password_hash = bcryptHash("Ops@456")]},
     {[SeedAdmin EXCEPT !.role = Null]}}

SqlOnAdmins(table) ==
    /\ table # admins
    /\ admins' = table
    /\ UNCHANGED <<now, profiles, nextId, issued, last, pending, counting>>

CreateProfile(cred, profileData, gen) ==
    /\ nextId <= MaxCreates
    /\ guarded("POST /api/profiles", cred, profileData, createProfile(profileData, gen))

GetProfile(uniqueCode) ==
    answer("GET /api/profiles/:uniqueCode", NoCred, [uniqueCode |-> uniqueCode],
           getProfile(uniqueCode), NoAdmin)

UpdateProfile(uniqueCode, updateData) ==
    answer("PUT /api/profiles/:uniqueCode", NoCred,
           [uniqueCode |-> uniqueCode, body |-> updateData],
           updateProfile(uniqueCode, updateData), NoAdmin)

UploadPhoto(uniqueCode, file) ==
    answer("POST /api/profiles/:uniqueCode/upload", NoCred,
           [uniqueCode |-> uniqueCode, file |-> file],
           uploadPhoto(uniqueCode, file), NoAdmin)

VerifyScoped(uniqueCode, id, pin) ==
    answer("POST /api/profiles/:uniqueCode/verify", NoCred,
           [uniqueCode |-> uniqueCode, id |-> id, pin |-> pin],
           verifyScoped(uniqueCode, id, pin), NoAdmin)

VerifyById(id, pin) ==
    answer("POST /api/profiles/verify", NoCred, [id |-> id, pin |-> pin],
           verifyById(id, pin), NoAdmin)

ChangePin(uniqueCode, newPin, currentPin) ==
    answer("PUT /api/profiles/:uniqueCode/pin", NoCred,
           [uniqueCode |-> uniqueCode, newPin |-> newPin, currentPin |-> currentPin],
           changePin(uniqueCode, newPin, currentPin), NoAdmin)

(***************************************************************************)
(* PUT /api/profiles/:uniqueCode/pin as the server runs it among other     *)
(* requests: the select and the comparison in one step, the update and the *)
(* response in a later one, with any request handled in between.           *)
(***************************************************************************)
ChangePinRead(uniqueCode, newPin, currentPin) ==
    LET req == [uniqueCode |-> uniqueCode, newPin |-> newPin, currentPin |-> currentPin]
        q == single({r \in profiles : r.unique_code = uniqueCode})
    IN  IF q.error
        THEN answer("PUT /api/profiles/:uniqueCode/pin", NoCred, req,
                    result(404, [error |-> "Profile not found"], <<"select profiles">>,
                           profiles, nextId), NoAdmin)
        ELSE IF q.data.pin # currentPin
        THEN answer("PUT /api/profiles/:uniqueCode/pin", NoCred, req,
                    result(401, [error |-> "Current PIN is incorrect"],
                           <<"select profiles">>, profiles, nextId), NoAdmin)
        ELSE /\ Cardinality(pending) < MaxPending
             /\ req \notin pending
             /\ pending' = pending \cup {req}
             /\ UNCHANGED <<now, admins, profiles, nextId, issued, last, counting>>

ChangePinWrite(req) ==
    LET target == {r \in profiles : r.unique_code = req.uniqueCode}
        applied(r) == [r EXCEPT !.pin = IF req.newPin = UndefinedPin THEN @ ELSE req.newPin,
                                !.updated_at = now]
        q == single({applied(r) : r \in target})
        r == IF q.error
             THEN result(400, [error |-> q.message],
                         <<"select profiles", "update profiles">>, profiles, nextId)
             ELSE result(200, [success |-> TRUE, message |-> "PIN updated successfully"],
                         <<"select profiles", "update profiles">>,
                         (profiles \ target) \cup {q.data}, nextId)
    IN  /\ req \in pending
        /\ pending' = pending \ {req}
        /\ last' = [route |-> "PUT /api/profiles/:uniqueCode/pin", at |-> now,
                    cred |-> NoCred, req |-> req, status |-> r.status, body |-> r.body,
                    db |-> r.db, admin |-> NoAdmin]
        /\ profiles' = r.profiles
        /\ UNCHANGED <<now, admins, nextId, issued, counting>>

DeleteProfileUnguarded(cred, uniqueCode) ==
    answer("DELETE /api/profiles/:uniqueCode", cred, [uniqueCode |-> uniqueCode],
           deleteProfile(uniqueCode), NoAdmin)

DeleteProfile(cred, uniqueCode) ==
    guarded("DELETE /api/profiles/:uniqueCode", cred, [uniqueCode |-> uniqueCode],
            deleteProfile(uniqueCode))

BanProfile(cred, uniqueCode) ==
    guarded("POST /api/admin/profiles/:uniqueCode/ban", cred, [uniqueCode |-> uniqueCode],
            banProfile(uniqueCode))

UnbanProfile(cred, uniqueCode) ==
    guarded("POST /api/admin/profiles/:uniqueCode/unban", cred,
            [uniqueCode |-> uniqueCode], unbanProfile(uniqueCode))

ListProfiles(cred, status) ==
    guarded("GET /api/admin/profiles", cred, [status |-> status], listProfiles(status))

Stats(cred) ==
    guarded("GET /api/admin/stats", cred, [none |-> TRUE], stats)

BulkDefaultDeletes(cred, action, uniqueCodes) ==
    guarded("POST /api/admin/profiles/bulk", cred,
            [action |-> action, uniqueCodes |-> uniqueCodes],
            bulk(IF action \in {"ban", "unban"} THEN action ELSE "delete", uniqueCodes))

(***************************************************************************)
(* GET /api/admin/stats as the server runs it among other requests: the    *)
(* guard, then the five count queries one await after the other, then the  *)
(* response; any request may be handled between two of them.               *)
(***************************************************************************)
NoCount == [active |-> FALSE]

\* the k-th count query of the handler, on the table as it is now
statCount(k) ==
    CASE k = 1 -> Cardinality(profiles)
      [] k = 2 -> Cardinality({r \in profiles : r.status = "active"})
      [] k = 3 -> Cardinality({r \in profiles : r.status = "banned"})
      [] k = 4 -> Cardinality({r \in profiles : r.created_at >= dayStart(now)})
      [] k = 5 -> Cardinality({r \in profiles : r.created_at >= now - 7 * HoursPerDay})

StatsBegin(cred) ==
    LET g == requireAdmin(Header(cred))
    IN  /\ counting = NoCount
        /\ IF g.pass
           THEN /\ counting' = [active |-> TRUE, cred |-> cred, admin |-> g.admin,
                                counts |-> <<>>, seen |-> <<>>]
                /\ UNCHANGED <<now, admins, profiles, nextId, issued, last, pending>>
           ELSE answer("GET /api/admin/stats", cred, [none |-> TRUE],
                       result(g.status, g.body, <<>>, profiles, nextId), NoAdmin)

StatsQuerySnapshot ==
    /\ counting # NoCount
    /\ Len(counting.counts) < 5
    /\ counting' = [counting EXCEPT
                      !.counts = Append(@, IF Len(counting.counts) = 0
                                           THEN statCount(1)
                                           ELSE LET t == counting.seen[1]
                                                    k == Len(counting.counts) + 1
                                                IN  CASE k = 2 -> Cardinality({r \in t : r.status = "active"})
                                                      [] k = 3 -> Cardinality({r \in t : r.status = "banned"})
                                                      [] OTHER -> Cardinality(t)),
                      !.seen = Append(@, profiles)]
    /\ UNCHANGED <<now, admins, profiles, nextId, issued, last, pending>>

StatsQuery ==
    /\ counting # NoCount
    /\ Len(counting.counts) < 5
    /\ counting' = [counting EXCEPT
                      !.counts = Append(@, statCount(Len(counting.counts) + 1)),
                      !.seen = Append(@, profiles)]
    /\ UNCHANGED <<now, admins, profiles, nextId, issued, last, pending>>

StatsRespond ==
    /\ counting # NoCount
    /\ Len(counting.counts) = 5
    /\ last' = [route |-> "GET /api/admin/stats", at |-> now, cred |-> counting.cred,
                req |-> [none |-> TRUE], status |-> 200,
                body |-> [totalProfiles |-> counting.counts[1],
                          activeProfiles |-> counting.counts[2],
                          bannedProfiles |-> counting.counts[3],
                          todayProfiles |-> counting.counts[4],
                          weekProfiles |-> counting.counts[5]],
                db |-> <<"select profiles", "select profiles", "select profiles",
                         "select profiles", "select profiles">>,
                admin |-> counting.admin]
    /\ counting' = NoCount
    /\ UNCHANGED <<now, admins, profiles, nextId, issued, pending>>

Bulk(cred, action, uniqueCodes) ==
    guarded("POST /api/admin/profiles/bulk", cred,
            [action |-> action, uniqueCodes |-> uniqueCodes], bulk(action, uniqueCodes))

AdminRoutes ==
    {"POST /api/profiles", "DELETE /api/profiles/:uniqueCode",
     "POST /api/admin/profiles/:uniqueCode/ban", "POST /api/admin/profiles/:uniqueCode/unban",
     "GET /api/admin/profiles", "GET /api/admin/stats", "POST /api/admin/profiles/bulk"}

(***************************************************************************)
(* The state after the schema scripts ran and the server started: the      *)
(* seeded admin, no profile, no request handled yet.                       *)
(***************************************************************************)
NoRequest ==
    [route |-> "none", at |-> 0, cred |-> NoCred, req |-> [none |-> TRUE], status |-> 0,
     body |-> [none |-> TRUE], db |-> <<>>, admin |-> NoAdmin]

Init ==
    /\ now = 0
    /\ admins = {SeedAdmin}
    /\ profiles = {}
    /\ nextId = 1
    /\ issued = {}
    /\ last = NoRequest
    /\ pending = {}
    /\ counting = NoCount

(***************************************************************************)
(* Request inputs.                                                         *)
(***************************************************************************)
P1 == <<"1", "2", "3", "4", "5">>

P2 == <<"5", "4", "3", "2", "1">>

\* the body of a create request, and the values the generators draw
CreateBody(code, id, pin) ==
    [uniqueCode |-> code, id |-> id, pin |-> pin, fullName |-> Undefined,
     profilePhoto |-> Undefined]

Drawn(code, id, pin) == [uniqueCode |-> code, idCard |-> id, pin |-> pin]

\* the body of an owner update: every field it does not carry is undefined
UpdateBody(fullName, status, pin) ==
    [profilePhoto |-> Undefined, fullName |-> fullName, status |-> status, pin |-> pin]

\* what an admin client that may also send a bad header presents
FewCreds == PlainCreds \cup {GarbageCred}

(***************************************************************************)
(* SpecGuard: the admin routes under every kind of credential, with the    *)
(* clock running past the expiry of the tokens.                            *)
(***************************************************************************)
NextGuard ==
    \/ AdminLogin(SeedAdmin.email, "Admin@123")
    \/ Tick(MaxClock)
    \/ \E t \in {{}, {SeedAdmin}} : SqlOnAdmins(t)
    \/ \E c \in FewCreds : CreateProfile(c, CreateBody("c1", "id1", P1), Drawn("c1", "id1", P1))
    \/ \E c \in FewCreds : DeleteProfile(c, "c1")
    \/ \E c \in AllCreds : BanProfile(c, "c1")
    \/ \E c \in FewCreds : UnbanProfile(c, "c1")
    \/ \E c \in FewCreds : ListProfiles(c, "")
    \/ \E c \in AllCreds : Stats(c)
    \/ \E c \in FewCreds : Bulk(c, "delete", Arr(<<"c1">>))

SpecGuard == Init /\ [][NextGuard]_vars

(***************************************************************************)
(* SpecLogin: login under every input while the admins table changes.      *)
(***************************************************************************)
NextLogin ==
    \/ \E e \in Emails, p \in Passwords : AdminLogin(e, p)
    \/ Tick(MaxClock)
    \/ \E t \in AdminTables : SqlOnAdmins(t)
    \/ \E c \in PlainCreds : Stats(c)

SpecLogin == Init /\ [][NextLogin]_vars

(***************************************************************************)
(* Spec: the profile routes on two records, with a logged-in admin.        *)
(***************************************************************************)
Codes == {"c1", "c2"}

\* the external id each create request of this specification sends with a code
IdOf(code) == IF code = "c1" THEN "id1" ELSE "id2"

OwnerUpdates ==
    {UpdateBody(Undefined, "suspended", UndefinedPin),
     UpdateBody(Undefined, "active", UndefinedPin),
     UpdateBody(Undefined, "banned", UndefinedPin),
     UpdateBody("Ann", Undefined, P2)}

Next ==
    \/ AdminLogin(SeedAdmin.email, "Admin@123")
    \/ \E c \in PlainCreds, code \in Codes :
          CreateProfile(c, CreateBody(code, IdOf(code), P1), Drawn(code, IdOf(code), P1))
    \/ \E code \in Codes, b \in OwnerUpdates : UpdateProfile(code, b)
    \/ \E code \in Codes, pins \in {<<P1, P2>>, <<P2, P1>>} :
          ChangePin(code, pins[2], pins[1])
    \/ \E code \in Codes, id \in {"id1", "id2"}, pin \in {P1, P2} :
          VerifyScoped(code, id, pin)
    \/ \E id \in {Undefined, "id1", "id2"}, pin \in {P1, P2} : VerifyById(id, pin)
    \/ \E c \in PlainCreds, code \in Codes : DeleteProfile(c, code)
    \/ \E c \in PlainCreds, code \in Codes : BanProfile(c, code)
    \/ \E c \in PlainCreds, code \in Codes : UnbanProfile(c, code)
    \/ \E c \in PlainCreds, a \in {"ban", "unban"} : Bulk(c, a, Arr(<<"c1", "c2">>))

Spec == Init /\ [][Next]_vars

(***************************************************************************)
(* SpecPin: the routes that write a pin, with pins of every shape, while   *)
(* the clock runs.                                                         *)
(***************************************************************************)
ShortPin == <<"1", "2">>

LetterPin == <<"a", "b", "c", "d", "e">>

NextPin ==
    \/ AdminLogin(SeedAdmin.email, "Admin@123")
    \/ Tick(MaxClock)
    \/ \E c \in PlainCreds, pin \in {UndefinedPin, P2, ShortPin} :
          CreateProfile(c, CreateBody("c1", "id1", pin), Drawn("c1", "id1", P1))
    \/ \E newPin \in {UndefinedPin, P1, P2, LetterPin},
          currentPin \in {UndefinedPin, P1, P2, ShortPin} :
          ChangePin("c1", newPin, currentPin)
    \/ \E pin \in {P1, ShortPin, LetterPin} :
          UpdateProfile("c1", UpdateBody(Undefined, Undefined, pin))
    \/ \E c \in PlainCreds : DeleteProfile(c, "c1")
    \/ GetProfile("c1")

SpecPin == Init /\ [][NextPin]_vars

(***************************************************************************)
(* SpecLife: the life of two records under the admin routes (create with   *)
(* colliding ids and codes, ban, unban, delete, bulk with every kind of    *)
(* body) and the public reads.                                             *)
(***************************************************************************)
BulkActions == {Undefined, "ban", "unban", "delete", "purge"}

BulkLists == {NotAnArray, Arr(<<>>), Arr(<<"c1", "c2", "z">>), Arr(<<"z">>)}

NextLife ==
    \/ AdminLogin(SeedAdmin.email, "Admin@123")
    \/ \E c \in PlainCreds, code \in Codes, id \in {"id1", "id2"} :
          CreateProfile(c, CreateBody(code, id, P1), Drawn(code, id, P1))
    \/ \E c \in PlainCreds, code \in Codes \cup {"z"} : DeleteProfile(c, code)
    \/ \E c \in PlainCreds, code \in Codes \cup {"z"} : BanProfile(c, code)
    \/ \E c \in PlainCreds, code \in Codes \cup {"z"} : UnbanProfile(c, code)
    \/ \E c \in PlainCreds, a \in BulkActions, l \in BulkLists : Bulk(c, a, l)
    \/ \E code \in Codes : GetProfile(code)
    \/ \E id \in {"id1", "id2"} : VerifyById(id, P1)

SpecLife == Init /\ [][NextLife]_vars

(***************************************************************************)
(* SpecStamp: one record under the routes that stamp updated_at (ban,      *)
(* unban, photo upload), while the clock runs.                             *)
(***************************************************************************)
File(mimetype, size) == [mimetype |-> mimetype, size |-> size]

\* sizes in MB: under the limit and over it
Files == {NoFile, File("image", 1), File("image", 6), File("text", 1), File("text", 6)}

NextStamp ==
    \/ AdminLogin(SeedAdmin.email, "Admin@123")
    \/ Tick(MaxClock)
    \/ \E c \in PlainCreds :
          CreateProfile(c, CreateBody("c1", "id1", P1), Drawn("c1", "id1", P1))
    \/ \E c \in PlainCreds, code \in {"c1", "z"} : BanProfile(c, code)
    \/ \E c \in PlainCreds, code \in {"c1", "z"} : UnbanProfile(c, code)
    \/ \E code \in {"c1", "z"}, f \in Files : UploadPhoto(code, f)

SpecStamp == Init /\ [][NextStamp]_vars

(***************************************************************************)
(* SpecRace: PIN changes on one record handled concurrently, among owner   *)
(* updates and deletes.                                                    *)
(***************************************************************************)
P3 == <<"9", "9", "9", "9", "9">>

NextRace ==
    \/ AdminLogin(SeedAdmin.email, "Admin@123")
    \/ \E c \in PlainCreds :
          CreateProfile(c, CreateBody("c1", "id1", P1), Drawn("c1", "id1", P1))
    \/ \E newPin \in {P2, P3}, currentPin \in {P1, P2} :
          ChangePinRead("c1", newPin, currentPin)
    \/ \E req \in pending : ChangePinWrite(req)
    \/ UpdateProfile("c1", UpdateBody(Undefined, Undefined, P1))
    \/ \E c \in PlainCreds : DeleteProfile(c, "c1")
    \/ VerifyById("id1", P1)

SpecRace == Init /\ [][NextRace]_vars

(***************************************************************************)
(* SpecStats: a stats request whose five queries run among creates, bans   *)
(* and deletes.                                                            *)
(***************************************************************************)
NextStats ==
    \/ AdminLogin(SeedAdmin.email, "Admin@123")
    \/ \E c \in PlainCreds, code \in Codes :
          CreateProfile(c, CreateBody(code, IdOf(code), P1), Drawn(code, IdOf(code), P1))
    \/ \E c \in PlainCreds : BanProfile(c, "c1")
    \/ \E c \in PlainCreds : DeleteProfile(c, "c1")
    \/ \E c \in PlainCreds : StatsBegin(c)
    \/ StatsQuery
    \/ StatsRespond

SpecStats == Init /\ [][NextStats]_vars

(***************************************************************************)
(* SpecOwner: the owner routes (update, photo upload, PIN change) on two   *)
(* records, while the clock runs.                                          *)
(***************************************************************************)
NextOwner ==
    \/ AdminLogin(SeedAdmin.email, "Admin@123")
    \/ Tick(MaxClock)
    \/ \E c \in PlainCreds, code \in Codes :
          CreateProfile(c, CreateBody(code, IdOf(code), P1), Drawn(code, IdOf(code), P1))
    \/ \E code \in Codes \cup {"z"} :
          UpdateProfile(code, UpdateBody("Ann", "banned", P2))
    \/ \E code \in Codes : UploadPhoto(code, File("image", 1))
    \/ \E code \in Codes : ChangePin(code, P3, P1)

SpecOwner == Init /\ [][NextOwner]_vars

(***************************************************************************)
(* Properties of the guard and of login.                                   *)
(***************************************************************************)
Bearer(t) == [kind |-> "bearer", tok |-> t]

LoginRoute == "POST /api/admin/login"

\* a credential written as "Bearer <token>" (whatever follows the token is ignored)
\* whose token the server signed over these very claims and that has not expired at t
ValidBearer(cred, t) ==
    /\ cred.kind \in {"bearer", "trailing"}
    /\ cred.tok.sig.key = JWT_SECRET
    /\ cred.tok.sig.over = cred.tok.claims
    /\ t < cred.tok.claims.exp

\* the request logged in `last` went past the guard to its handler
Proceeded == last.admin # NoAdmin

\* C1: a request on an admin route proceeds to its handler, with the token's claims
\* attached, if and only if its Authorization header is "Bearer <token>" with a token
\* that is correctly signed and unexpired; every other request (no header, another
\* scheme, a malformed, forged, altered or expired token) is answered 401 and runs
\* no statement.
C1_GuardAcceptsExactlyValidBearer ==
    last.route \in AdminRoutes =>
        IF ValidBearer(last.cred, last.at)
        THEN Proceeded /\ last.admin = last.cred.tok.claims /\ last.status # 401
        ELSE ~Proceeded /\ last.status = 401 /\ last.db = <<>>

C1_Witness_ExpiredTokenRejected ==
    /\ last.route = "POST /api/admin/profiles/:uniqueCode/ban"
    /\ last.cred.kind = "bearer"
    /\ last.cred.tok \in IssuedTokens
    /\ last.at >= last.cred.tok.claims.exp
    /\ last.status = 401
    /\ \E r \in profiles : r.unique_code = last.req.uniqueCode /\ r.status = "active"

\* C2: a step that handles a request on an admin route runs a database statement,
\* or changes the profiles table, only if the guard accepted the request's token.
C2_AdminOpsTouchDbOnlyBehindGuard ==
    [][(last' # last /\ last'.route \in AdminRoutes
        /\ (last'.db # <<>> \/ profiles' # profiles \/ nextId' # nextId))
       => ValidBearer(last'.cred, now) /\ requireAdmin(Header(last'.cred)).pass]_vars

C2_Witness_RejectedDeleteLeavesRow ==
    /\ last.route = "POST /api/admin/profiles/bulk"
    /\ last.req.action = "delete"
    /\ last.status = 401
    /\ last.db = <<>>
    /\ \E r \in profiles : r.unique_code \in Range(last.req.uniqueCodes.items)

\* C6: a token login returned at time t is accepted at every time before t + 8 hours
\* and rejected at every time after it, whatever was done since (the account deleted,
\* other logins, admin operations); the same token with a later expiry written into
\* it is never accepted.
C6_TokenValidForEightHours ==
    \A i \in issued :
        /\ now < i.at + EXPIRES_IN => requireAdmin(Header(Bearer(i.token))).pass
        /\ now > i.at + EXPIRES_IN => ~requireAdmin(Header(Bearer(i.token))).pass
        /\ ~requireAdmin(Header(Bearer(Tampered(i.token)))).pass

C6_Witness_AcceptedAfterAccountRemoved ==
    /\ admins = {}
    /\ last.route = "GET /api/admin/stats"
    /\ last.status = 200
    /\ last.at > last.cred.tok.claims.iat
    /\ \E i \in issued : i.token = last.cred.tok /\ now > i.at + EXPIRES_IN

\* the stored account a login request names, if its password matches
Matching(email, password) ==
    {a \in admins : a.email = email /\ a.password_hash = bcryptHash(password)}

HasToken(body) == "token" \in DOMAIN body

\* C3: a login whose (email, password) matches a stored account returns a token that
\* the guard accepts, and the claims the guard attaches carry that account's id as
\* subject and the role the token was issued with (the account's, or 'admin').
C3_LoginTokenAcceptedWithSameClaims ==
    [][(last' # last /\ last'.route = LoginRoute
        /\ Matching(last'.req.email, last'.req.password) # {})
       => /\ last'.status = 200
          /\ HasToken(last'.body)
          /\ LET a == CHOOSE x \in Matching(last'.req.email, last'.req.password) : TRUE
                 g == requireAdmin(Header(Bearer(last'.body.token)))
             IN  /\ g.pass
                 /\ g.admin.sub = a.id
                 /\ g.admin.role = (IF a.role = Null THEN "admin" ELSE a.role)
                 /\ g.admin.role = last'.body.token.claims.role]_vars

C3_Witness_ViewerTokenAccepted ==
    /\ last.route = LoginRoute
    /\ last.status = 200
    /\ last.req.email = OtherAdmin.email
    /\ requireAdmin(Header(Bearer(last.body.token))).pass
    /\ requireAdmin(Header(Bearer(last.body.token))).admin.role = "viewer"

\* C4: login answers 400 without looking at the table when the email or the password
\* is missing; otherwise 401 when no account has the email; otherwise 401 when the
\* password does not match the stored hash; otherwise 200 with a token.  Only the
\* last case returns (and records) a token.
C4_LoginOutcomeOrder ==
    [][(last' # last /\ last'.route = LoginRoute)
       => LET e == last'.req.email
              p == last'.req.password
          IN  /\ IF ~Truthy(e) \/ ~Truthy(p)
                 THEN last'.status = 400 /\ last'.db = <<>>
                 ELSE IF {a \in admins : a.email = e} = {}
                 THEN last'.status = 401
                 ELSE IF Matching(e, p) = {}
                 THEN last'.status = 401
                 ELSE last'.status = 200 /\ HasToken(last'.body)
              /\ Matching(e, p) = {} => ~HasToken(last'.body) /\ issued' = issued]_vars

C4_Witness_WrongPasswordNoToken ==
    /\ last.route = LoginRoute
    /\ last.status = 401
    /\ \E a \in admins : a.email = last.req.email
    /\ Matching(last.req.email, last.req.password) = {}
    /\ issued = {}

\* C5: in every state, a login with an email no account has and a login with a known
\* email and a wrong password get the same status and the same body.
C5_UnknownEmailLikeWrongPassword ==
    \A e1 \in Emails, e2 \in Emails, p1 \in Passwords, p2 \in Passwords :
        (/\ Truthy(e1) /\ Truthy(p1) /\ Truthy(e2) /\ Truthy(p2)
         /\ {a \in admins : a.email = e1} = {}
         /\ {a \in admins : a.email = e2} # {}
         /\ Matching(e2, p2) = {})
        => /\ login(e1, p1).status = login(e2, p2).status
           /\ login(e1, p1).body = login(e2, p2).body

C5_Witness_UnknownEmailRejected ==
    /\ last.route = LoginRoute
    /\ last.status = 401
    /\ Truthy(last.req.email)
    /\ {a \in admins : a.email = last.req.email} = {}
    /\ admins # {}
    /\ last.body = login(SeedAdmin.email, "Ops@456").body
    /\ Matching(SeedAdmin.email, "Ops@456") = {}
    /\ \E a \in admins : a.email = SeedAdmin.email

(***************************************************************************)
(* Properties of credential verification and of the status column.         *)
(***************************************************************************)
VerifyByIdRoute == "POST /api/profiles/verify"

VerifyScopedRoute == "POST /api/profiles/:uniqueCode/verify"

\* C7: variant B, given an id and a pin, answers 404 when no record has the id;
\* else 403 "Account is banned" when the record is banned, whatever the pin; else
\* 401 when the pin differs from the stored one; else 200 with the record's code.
C7_VerifyByIdOutcomeOrder ==
    [][(last' # last /\ last'.route = VerifyByIdRoute
        /\ Truthy(last'.req.id) /\ TruthyPin(last'.req.pin))
       => LET rows == {r \in profiles : r.admin_id = last'.req.id}
          IN  IF rows = {}
              THEN last'.status = 404
              ELSE LET r == CHOOSE x \in rows : TRUE
                   IN  IF r.status = "banned"
                       THEN /\ last'.status = 403
                            /\ last'.body = [error |-> "Account is banned"]
                       ELSE IF r.pin # last'.req.pin
                       THEN last'.status = 401
                       ELSE /\ last'.status = 200
                            /\ last'.body.success
                            /\ last'.body.uniqueCode = r.unique_code]_vars

C7_Witness_BannedWrongPinForbidden ==
    /\ last.route = VerifyByIdRoute
    /\ last.status = 403
    /\ \E r \in profiles : /\ r.admin_id = last.req.id
                           /\ r.status = "banned"
                           /\ r.pin # last.req.pin

\* the step is an accepted admin unban (single or bulk) that names the code
UnbanStepOn(code) ==
    /\ last' # last
    /\ last'.status = 200
    /\ \/ /\ last'.route = "POST /api/admin/profiles/:uniqueCode/unban"
          /\ last'.req.uniqueCode = code
       \/ /\ last'.route = "POST /api/admin/profiles/bulk"
          /\ last'.req.action = "unban"
          /\ code \in Range(last'.req.uniqueCodes.items)

\* C8: a banned record stays refused by variant B under its id and correct pin
\* (403, never success) after every step that is not an admin unban of it, for as
\* long as the record exists.
C8_BannedRefusedUntilUnban ==
    [][\A r \in profiles :
          (r.status = "banned" /\ ~UnbanStepOn(r.unique_code))
          => \A r2 \in profiles' :
                r2.id = r.id => verifyById(r2.admin_id, r2.pin)'.status = 403]_vars

\* C9: variant A answers 200 exactly when one record has the code, the id and the
\* pin of the request together, and 401 otherwise; the record's status plays no part.
C9_VerifyScopedMatchesAllThree ==
    [][(last' # last /\ last'.route = VerifyScopedRoute)
       => LET m == {r \in profiles : /\ r.unique_code = last'.req.uniqueCode
                                     /\ r.admin_id = last'.req.id
                                     /\ r.pin = last'.req.pin}
          IN  IF Cardinality(m) = 1
              THEN last'.status = 200 /\ last'.body.success
              ELSE last'.status = 401]_vars

C9_Witness_BannedRecordVerifies ==
    /\ last.route = VerifyScopedRoute
    /\ last.status = 200
    /\ \E r \in profiles : /\ r.unique_code = last.req.uniqueCode
                           /\ r.admin_id = last.req.id
                           /\ r.pin = last.req.pin
                           /\ r.status = "banned"
    /\ \E r \in profiles : r.unique_code # last.req.uniqueCode

\* C10: every stored record has status 'active' or 'banned'.
C10_StatusActiveOrBanned ==
    \A r \in profiles : r.status \in {"active", "banned"}

(***************************************************************************)
(* Properties of the stored PIN.                                           *)
(***************************************************************************)
PinChangeRoute == "PUT /api/profiles/:uniqueCode/pin"

\* C11: a step replaces the stored pin of a record only when it handles a PIN-change
\* request that carries the pin the record held before the step as currentPin; no
\* other request on an existing record (the owner update among them) replaces it.
C11_PinChangedOnlyWithCurrentPin ==
    [][\A r \in profiles, r2 \in profiles' :
          (r2.id = r.id /\ r2.pin # r.pin)
          => /\ last'.route = PinChangeRoute
             /\ last'.req.currentPin = r.pin]_vars

\* C12: a PIN change handled in one step on an existing record: when currentPin
\* differs from the stored pin it is answered 401 and the table is left as it was;
\* when currentPin is the stored pin and newPin is five digits it is answered 200,
\* the record's pin becomes newPin and its updated_at the time of the request, which
\* is not before the old one, and nothing else changes.
C12_PinChangeOutcome ==
    [][(last' # last /\ last'.route = PinChangeRoute)
       => \A r \in profiles :
            r.unique_code = last'.req.uniqueCode
            => IF r.pin # last'.req.currentPin
               THEN /\ last'.status = 401
                    /\ last'.body = [error |-> "Current PIN is incorrect"]
                    /\ profiles' = profiles
               ELSE IsFiveDigits(last'.req.newPin)
                    => /\ last'.status = 200
                       /\ profiles' = (profiles \ {r})
                                      \cup {[r EXCEPT !.pin = last'.req.newPin,
                                                      !.updated_at = now]}
                       /\ now >= r.updated_at]_vars

C12_Witness_PinReplacedAndStamped ==
    /\ last.route = PinChangeRoute
    /\ last.status = 200
    /\ last.req.newPin # last.req.currentPin
    /\ IsFiveDigits(last.req.newPin)
    /\ \E r \in profiles : /\ r.unique_code = last.req.uniqueCode
                           /\ r.pin = last.req.newPin
                           /\ r.updated_at = last.at
                           /\ r.updated_at > r.created_at

(***************************************************************************)
(* Properties of the admin operations on records.                          *)
(***************************************************************************)
BulkRoute == "POST /api/admin/profiles/bulk"

codesOf(rows) == {r.unique_code : r \in rows}

\* C13: an accepted bulk ban or unban of a non-empty code list answers 200 with
\* count equal to the length of the list, whether or not the codes exist; the named
\* records that exist get the requested status, every other record is left as it
\* was, and an absent code stays absent.
C13_BulkCountIsRequested ==
    [][(last' # last /\ last'.route = BulkRoute /\ Proceeded'
        /\ last'.req.action \in {"ban", "unban"}
        /\ last'.req.uniqueCodes.isArray /\ Len(last'.req.uniqueCodes.items) > 0)
       => LET codes == Range(last'.req.uniqueCodes.items)
              status == IF last'.req.action = "ban" THEN "banned" ELSE "active"
          IN  /\ last'.status = 200
              /\ last'.body.success
              /\ last'.body.count = Len(last'.req.uniqueCodes.items)
              /\ "error" \notin DOMAIN last'.body
              /\ codesOf(profiles') = codesOf(profiles)
              /\ \A r \in profiles :
                    IF r.unique_code \in codes
                    THEN [r EXCEPT !.status = status, !.updated_at = now] \in profiles'
                    ELSE r \in profiles']_vars

C13_Witness_BulkBanWithAbsentCode ==
    /\ last.route = BulkRoute
    /\ last.req.action = "ban"
    /\ last.req.uniqueCodes = Arr(<<"c1", "c2", "z">>)
    /\ last.status = 200
    /\ last.body.count = 3
    /\ codesOf(profiles) = {"c1", "c2"}
    /\ \A r \in profiles : r.status = "banned"

\* C14: an accepted bulk request whose code list is not an array or is empty, or
\* whose action is missing or is none of ban, unban and delete, is answered 400
\* without a database statement, and the table is left as it was.
C14_BulkRejectsBadParameters ==
    [][(last' # last /\ last'.route = BulkRoute /\ Proceeded'
        /\ (\/ ~last'.req.uniqueCodes.isArray
            \/ Len(last'.req.uniqueCodes.items) = 0
            \/ last'.req.action \notin {"ban", "unban", "delete"}))
       => /\ last'.status = 400
          /\ last'.db = <<>>
          /\ profiles' = profiles]_vars

C14_Witness_UnknownActionRefused ==
    /\ last.route = BulkRoute
    /\ Proceeded
    /\ last.req.action = "purge"
    /\ last.req.uniqueCodes = Arr(<<"c1", "c2", "z">>)
    /\ last.status = 400
    /\ last.db = <<>>
    /\ codesOf(profiles) = {"c1", "c2"}

BanRoute == "POST /api/admin/profiles/:uniqueCode/ban"

UnbanRoute == "POST /api/admin/profiles/:uniqueCode/unban"

\* C15: an accepted single ban (unban) of an existing record, whatever its status
\* before, answers 200 with the new status, sets the record's status to 'banned'
\* ('active') and its updated_at to the time of the request, and changes nothing
\* else; the same request applied again right after succeeds and leaves the status.
C15_BanUnbanSetStatusIdempotent ==
    [][(last' # last /\ last'.route \in {BanRoute, UnbanRoute} /\ Proceeded')
       => \A r \in profiles :
            r.unique_code = last'.req.uniqueCode
            => LET status == IF last'.route = BanRoute THEN "banned" ELSE "active"
               IN  /\ last'.status = 200
                   /\ last'.body = [success |-> TRUE, status |-> status]
                   /\ profiles' = (profiles \ {r})
                                  \cup {[r EXCEPT !.status = status, !.updated_at = now]}
                   /\ IF last'.route = BanRoute
                      THEN /\ banProfile(r.unique_code)'.status = 200
                           /\ \A r2 \in banProfile(r.unique_code)'.profiles :
                                 r2.id = r.id => r2.status = status
                      ELSE /\ unbanProfile(r.unique_code)'.status = 200
                           /\ \A r2 \in unbanProfile(r.unique_code)'.profiles :
                                 r2.id = r.id => r2.status = status]_vars

C15_Witness_BanStampsRecord ==
    /\ last.route = BanRoute
    /\ last.status = 200
    /\ last.body.status = "banned"
    /\ \E r \in profiles : /\ r.unique_code = last.req.uniqueCode
                           /\ r.status = "banned"
                           /\ r.updated_at = last.at
                           /\ r.updated_at > r.created_at

DeleteRoute == "DELETE /api/profiles/:uniqueCode"

\* the codes an accepted single or bulk delete names
deletedCodes(l) ==
    IF l.route = DeleteRoute THEN {l.req.uniqueCode} ELSE Range(l.req.uniqueCodes.items)

\* C16: an accepted single delete, or bulk delete of a non-empty list, answers 200
\* whether or not the codes it names exist, and leaves exactly the records it does
\* not name, each as it was; right after it the public fetch by a named code
\* answers 404 and so does variant B under the external id of a removed record.
C16_DeleteIsHard ==
    [][(last' # last /\ Proceeded'
        /\ \/ last'.route = DeleteRoute
           \/ /\ last'.route = BulkRoute
              /\ last'.req.action = "delete"
              /\ last'.req.uniqueCodes.isArray
              /\ Len(last'.req.uniqueCodes.items) > 0)
       => /\ last'.status = 200
          /\ last'.body.success
          /\ profiles' = {r \in profiles : r.unique_code \notin deletedCodes(last')}
          /\ \A code \in Codes \cup {"z"} :
                code \in deletedCodes(last') => getProfile(code)'.status = 404
          /\ \A r \in profiles :
                r.unique_code \in deletedCodes(last')
                => verifyById(r.admin_id, r.pin)'.status = 404]_vars

C16_Witness_DeletedRecordGone ==
    /\ last.route = DeleteRoute
    /\ last.status = 200
    /\ last.req.uniqueCode = "c1"
    /\ getProfile("c1").status = 404
    /\ verifyById("id1", P1).status = 404
    /\ \E r \in profiles : r.unique_code = "c2" /\ r.admin_id = "id2" /\ r.status = "banned"

CreateRoute == "POST /api/profiles"

\* no two records share an external id, and no two share a public code
UniqueKeys(rows) ==
    \A r1 \in rows, r2 \in rows :
        (r1.admin_id = r2.admin_id \/ r1.unique_code = r2.unique_code) => r1 = r2

\* C17: in every state admin_id and unique_code are each unique across the records;
\* an accepted create whose id or code is the one of an existing record is answered
\* 400 with the database's message and leaves the table as it was.
C17_KeysUniqueAndCollisionRefused ==
    /\ []UniqueKeys(profiles)
    /\ [][(last' # last /\ last'.route = CreateRoute /\ Proceeded'
           /\ \E r \in profiles : \/ r.admin_id = last'.req.id
                                  \/ r.unique_code = last'.req.uniqueCode)
          => /\ last'.status = 400
             /\ last'.body = [error |-> "duplicate key value violates unique constraint"]
             /\ profiles' = profiles]_vars

C17_Witness_IdCollisionRefused ==
    /\ last.route = CreateRoute
    /\ last.status = 400
    /\ last.req.id = "id1"
    /\ last.req.uniqueCode = "c2"
    /\ \E r \in profiles : r.admin_id = "id1" /\ r.unique_code = "c1"
    /\ \A r \in profiles : r.unique_code # "c2"

\* C18: every stored pin is a string of exactly five decimal digits.
C18_StoredPinFiveDigits ==
    \A r \in profiles : IsFiveDigits(r.pin)

(***************************************************************************)
(* Properties of the photo upload.                                         *)
(***************************************************************************)
UploadRoute == "POST /api/profiles/:uniqueCode/upload"

\* C19: an upload whose file is not an image, or is larger than the size limit, is
\* answered with an error without the handler's update running: no statement is
\* run and every record keeps its photo and its updated_at; an image over the
\* limit is answered 400 with the size message.
C19_BadUploadLeavesRecord ==
    [][(last' # last /\ last'.route = UploadRoute
        /\ last'.req.file # NoFile
        /\ (last'.req.file.mimetype # "image" \/ last'.req.file.size > FILE_SIZE_LIMIT))
       => /\ last'.status >= 400
          /\ last'.db = <<>>
          /\ profiles' = profiles
          /\ last'.req.file.mimetype = "image"
             => /\ last'.status = 400
                /\ last'.body = [error |-> "File too large. Maximum size is 5MB."]]_vars

C19_Witness_OversizeImageRefused ==
    /\ last.route = UploadRoute
    /\ last.req.file = File("image", 6)
    /\ last.status = 400
    /\ \E r \in profiles : /\ r.unique_code = last.req.uniqueCode
                           /\ r.profile_photo_url = DefaultPhoto
                           /\ r.updated_at < last.at

(***************************************************************************)
(* Properties of concurrent requests.                                      *)
(***************************************************************************)
\* C20: when a PIN change completes with success, the pin the record held just
\* before its update is the currentPin the request supplied, whatever was handled
\* between the request's select and its update.
C20_PinOverwriteOnlyOnCurrentPin ==
    [][\A req \in pending \ pending' :
          last'.status = 200
          => \A r \in profiles :
                r.unique_code = req.uniqueCode => r.pin = req.currentPin]_vars

StatsRoute == "GET /api/admin/stats"

\* the three status counts of one table
statusCounts(t) ==
    <<Cardinality(t), Cardinality({r \in t : r.status = "active"}),
      Cardinality({r \in t : r.status = "banned"})>>

\* C21: each of the five values a stats response carries is the count its own query
\* found in the table as it was when that query ran (total, active, banned, created
\* today, created in the last seven days, in this order); so when the table was the
\* same at the first three queries, total, active and banned are the counts of that
\* one table.  With writes between the queries the values may hold of no table at
\* all (more active records than records).
C21_StatsCountsPerQuery ==
    [][(counting # NoCount /\ counting' = NoCount)
       => LET seen == counting.seen
              b == last'.body
          IN  /\ last'.route = StatsRoute /\ last'.status = 200
              /\ b.totalProfiles = Cardinality(seen[1])
              /\ b.activeProfiles = Cardinality({r \in seen[2] : r.status = "active"})
              /\ b.bannedProfiles = Cardinality({r \in seen[3] : r.status = "banned"})
              /\ b.todayProfiles
                   = Cardinality({r \in seen[4] : r.created_at >= dayStart(now)})
              /\ b.weekProfiles
                   = Cardinality({r \in seen[5] : r.created_at >= now - 7 * HoursPerDay})
              /\ (seen[1] = seen[2] /\ seen[2] = seen[3])
                 => <<b.totalProfiles, b.activeProfiles, b.bannedProfiles>>
                      = statusCounts(seen[1])]_vars

C21_Witness_CountsOfNoSingleTable ==
    /\ last.route = StatsRoute
    /\ last.status = 200
    /\ last.body.activeProfiles > last.body.totalProfiles
    /\ \A t \in SUBSET profiles :
          <<last.body.totalProfiles, last.body.activeProfiles, last.body.bannedProfiles>>
            # statusCounts(t)

(***************************************************************************)
(* Properties of the public fetch and of the owner routes.                 *)
(***************************************************************************)
\* table t2 is table t1 with the pin of some records replaced, and nothing else
DifferOnlyInPin(t1, t2) ==
    /\ t1 # t2
    /\ \A r2 \in t2 : \E r1 \in t1 : r2 = [r1 EXCEPT !.pin = r2.pin]
    /\ \A r1 \in t1 : \E r2 \in t2 : r2 = [r1 EXCEPT !.pin = r2.pin]

\* C22: the public fetch answers alike on two tables that differ only in a record's
\* pin: when a step replaces a pin and nothing else, the fetch of every code has the
\* same status and the same body after the step as before it.
C22_FetchIndependentOfPin ==
    [][DifferOnlyInPin(profiles, profiles')
       => \A code \in Codes :
             /\ getProfile(code)'.status = getProfile(code).status
             /\ getProfile(code)'.body = getProfile(code).body]_vars

UpdateRoute == "PUT /api/profiles/:uniqueCode"

OwnerRoutes == {UpdateRoute, UploadRoute, PinChangeRoute}

\* C23: a step that handles an owner update, a photo upload or a PIN change sent
\* to code c leaves every record with another code as it was, adds and removes no
\* record, and leaves the internal id, admin_id, unique_code and created_at of the
\* record with code c as they were.
C23_OwnerRoutesTouchOnlyTarget ==
    [][((last' # last \/ profiles' # profiles) /\ last'.route \in OwnerRoutes)
       => /\ Cardinality(profiles') = Cardinality(profiles)
          /\ \A r \in profiles :
                IF r.unique_code # last'.req.uniqueCode
                THEN r \in profiles'
                ELSE \E r2 \in profiles' : /\ r2.id = r.id
                                           /\ r2.admin_id = r.admin_id
                                           /\ r2.unique_code = r.unique_code
                                           /\ r2.created_at = r.created_at]_vars

C23_Witness_UpdateLeavesOtherRecord ==
    /\ last.route = UpdateRoute
    /\ last.status = 200
    /\ last.req.uniqueCode = "c1"
    /\ \E r \in profiles : /\ r.unique_code = "c1" /\ r.admin_id = "id1"
                           /\ r.full_name = "Ann" /\ r.pin = P2
                           /\ r.updated_at = last.at
                           /\ r.created_at < last.at
    /\ \E r \in profiles : /\ r.unique_code = "c2"
                           /\ r.full_name = "Default Name" /\ r.pin = P1
                           /\ r.status = "active"
                           /\ r.updated_at < last.at

=============================================================================
